---- MODULE Spec2Model ----
(***************************************************************************)
(* A model of include/osquery/registry.h: RegistryCore (one container of   *)
(* plugins keyed by item name), RegistryFactory (the process-wide map of   *)
(* containers keyed by registry name) and Plugin (the item interface).     *)
(*                                                                         *)
(* Registry names and item names are std::string keys of a std::map; they  *)
(* are represented by the naturals 1..MaxRegistries and 1..MaxItemNames,   *)
(* whose order stands for the lexicographic order std::map iterates in.    *)
(* A plugin instance is a slot of the heap `plugins`; its index is the     *)
(* identity of the object a shared_ptr points to.                          *)
(***************************************************************************)
EXTENDS Integers, Sequences, FiniteSets, TLC

\* ----- bounds of the model
MaxRegistries == 2
MaxItemNames == 2
MaxPlugins == 2
MaxThreads == 2

RegistryNames == 1..MaxRegistries
ItemNames == 1..MaxItemNames
\* The plugin base types a registry can be created with (create<Type>).
Types == {"Plugin", "Derived"}

\* Status codes: Status(0, ...) and Status(1, ...); NoStatus where the
\* operation returns void or did not return.
NoStatus == -1
\* Plugin::Plugin sets name_ to "unnamed" (no item name is 0).
Unnamed == 0
\* A null shared_ptr / no returned reference.
Null == 0

VARIABLES
  registries_,  \* RegistryFactory::registries_ : name -> RegistryCore
  plugins,      \* every Plugin constructed so far, by identity
  lastOp,       \* the last operation called and what it returned
  trace,        \* the plugin methods and map erasures of the last operation
  live,         \* history: per registry, names added and not removed since
  threads       \* the threads that use the registry after startup, and
                \* where each is in the operation it has called

vars == <<registries_, plugins, lastOp, trace, live, threads>>

\* ----- std::map
MapCount(m, k) == IF k \in DOMAIN m THEN 1 ELSE 0
MapPut(m, k, v) == [x \in (DOMAIN m) \cup {k} |-> IF x = k THEN v ELSE m[x]]
MapErase(m, k) == [x \in (DOMAIN m) \ {k} |-> m[x]]
EmptyMap == [x \in {} |-> Null]

\* The keys of a std::map in iteration order.
RECURSIVE KeysInOrder(_)
KeysInOrder(S) ==
  IF S = {} THEN <<>>
  ELSE LET k == CHOOSE x \in S : \A y \in S : x <= y
       IN <<k>> \o KeysInOrder(S \ {k})

Event(kind, reg, item, plugin) ==
  [kind |-> kind, reg |-> reg, item |-> item, plugin |-> plugin]

Result(core, heap, code, msg, events) ==
  [core |-> core, plugins |-> heap, code |-> code, msg |-> msg,
   events |-> events]

\* ----- Plugin
NewPlugin == [name_ |-> Unnamed, tearDowns |-> 0]
PluginSetName(p, name) == [p EXCEPT !.name_ = name]
\* routeInfo is virtual: every instance publishes its own info.
routeInfo(heap, id) == [plugin |-> id, name |-> heap[id].name_]

\* ----- RegistryCore
\* RegistryCore<Type>(auto_setup), held as a RegistryCore<TypeAPI>: Type
\* adds no member, the object is name_, items_ and auto_setup_.
NewRegistryCore(Type, auto_setup) ==
  [name_ |-> Unnamed, items_ |-> EmptyMap, auto_setup_ |-> auto_setup]

CoreSetName(core, name) == [core EXCEPT !.name_ = name]

\* CoreAdd without the duplicate check: the new item replaces the old one.
\* CoreAdd that constructs the item but never indexes it in items_.
CoreAdd_Unstored(core, heap, item_name) ==
  IF MapCount(core.items_, item_name) > 0
  THEN Result(core, heap, 1, "Duplicate registry item exists", <<>>)
  ELSE LET id == Len(heap) + 1
           item == PluginSetName(NewPlugin, item_name)
       IN Result(core, Append(heap, item), 0, "OK",
                 <<Event("new", core.name_, item_name, id)>>)

CoreAdd_Overwrite(core, heap, item_name) ==
  LET id == Len(heap) + 1
      item == PluginSetName(NewPlugin, item_name)
  IN Result([core EXCEPT !.items_ = MapPut(@, item_name, id)],
            Append(heap, item), 0, "OK",
            <<Event("new", core.name_, item_name, id)>>)

CoreAdd(core, heap, item_name) ==
  IF MapCount(core.items_, item_name) > 0
  THEN Result(core, heap, 1, "Duplicate registry item exists", <<>>)
  ELSE LET id == Len(heap) + 1
           item == PluginSetName(NewPlugin, item_name)
       IN Result([core EXCEPT !.items_ = MapPut(@, item_name, id)],
                 Append(heap, item), 0, "OK",
                 <<Event("new", core.name_, item_name, id)>>)

\* get: items_.at(item_name) throws std::out_of_range on a missing key.
\* CoreGet through operator[] instead of at: a null reference, no throw.
CoreGet_NoThrow(core, item_name) ==
  IF item_name \in DOMAIN core.items_
  THEN [fault |-> "none", ret |-> core.items_[item_name]]
  ELSE [fault |-> "none", ret |-> Null]

CoreGet(core, item_name) ==
  IF item_name \in DOMAIN core.items_
  THEN [fault |-> "none", ret |-> core.items_[item_name]]
  ELSE [fault |-> "out_of_range", ret |-> Null]

\* CoreRemove that erases the item without tearing it down.
\* CoreRemove that tears the item down but leaves it in items_.
CoreRemove_NoErase(core, heap, item_name) ==
  IF MapCount(core.items_, item_name) > 0
  THEN LET id == core.items_[item_name]
       IN Result(core, [heap EXCEPT ![id].tearDowns = @ + 1], NoStatus, "",
                 <<Event("tearDown", core.name_, item_name, id)>>)
  ELSE Result(core, heap, NoStatus, "", <<>>)

CoreRemove_NoTearDown(core, heap, item_name) ==
  IF MapCount(core.items_, item_name) > 0
  THEN LET id == core.items_[item_name]
       IN Result([core EXCEPT !.items_ = MapErase(@, item_name)], heap,
                 NoStatus, "",
                 <<Event("erase", core.name_, item_name, id)>>)
  ELSE Result(core, heap, NoStatus, "", <<>>)

\* CoreRemove without the presence check: items_[item_name] of a missing
\* key is a null reference, torn down and erased like any other.
CoreRemove_Unchecked(core, heap, item_name) ==
  LET id == IF item_name \in DOMAIN core.items_
            THEN core.items_[item_name] ELSE Null
  IN Result([core EXCEPT !.items_ = MapErase(@, item_name)],
            [i \in DOMAIN heap |->
               IF i = id THEN [heap[i] EXCEPT !.tearDowns = @ + 1]
               ELSE heap[i]],
            NoStatus, "",
            <<Event("tearDown", core.name_, item_name, id),
              Event("erase", core.name_, item_name, id)>>)

CoreRemove(core, heap, item_name) ==
  IF MapCount(core.items_, item_name) > 0
  THEN LET id == core.items_[item_name]
       IN Result([core EXCEPT !.items_ = MapErase(@, item_name)],
                 [heap EXCEPT ![id].tearDowns = @ + 1],
                 NoStatus, "",
                 <<Event("tearDown", core.name_, item_name, id),
                   Event("erase", core.name_, item_name, id)>>)
  ELSE Result(core, heap, NoStatus, "", <<>>)

RECURSIVE RoutesLoop(_, _, _, _)
RoutesLoop(core, heap, keys, route_table) ==
  IF keys = <<>> THEN route_table
  ELSE RoutesLoop(core, heap, Tail(keys),
                  MapPut(route_table, Head(keys),
                         routeInfo(heap, core.items_[Head(keys)])))

CoreGetRoutes(core, heap) ==
  RoutesLoop(core, heap, KeysInOrder(DOMAIN core.items_), EmptyMap)

\* call: pluginCode is the status code the plugin's own call returns.
\* CoreCall without the presence check: items_[item_name] of a missing key
\* inserts a null reference.
CoreCall_Inserting(core, heap, item_name, pluginCode) ==
  IF item_name \in DOMAIN core.items_
  THEN Result(core, heap, pluginCode, "plugin",
              <<Event("call", core.name_, item_name, core.items_[item_name])>>)
  ELSE Result([core EXCEPT !.items_ = MapPut(@, item_name, Null)], heap,
              1, "Cannot call registry item", <<>>)

CoreCall(core, heap, item_name, pluginCode) ==
  IF MapCount(core.items_, item_name) > 0
  THEN Result(core, heap, pluginCode, "plugin",
              <<Event("call", core.name_, item_name, core.items_[item_name])>>)
  ELSE Result(core, heap, 1, "Cannot call registry item", <<>>)

\* SetUpLoop that leaves the loop at the first item whose setUp fails.
RECURSIVE SetUpLoop_BreakOnFailure(_, _, _, _)
SetUpLoop_BreakOnFailure(core, keys, failing, acc) ==
  IF keys = <<>> THEN acc
  ELSE LET item_name == Head(keys)
           id == core.items_[item_name]
           events == Append(acc.events,
                            Event("setUp", core.name_, item_name, id))
       IN IF item_name \in failing
          THEN [events |-> events, failed |-> Append(acc.failed, item_name)]
          ELSE SetUpLoop_BreakOnFailure(core, Tail(keys), failing,
                 [events |-> events, failed |-> acc.failed])

\* First loop of setUp: call setUp on each item, record the failed names.
\* failing is the set of item names whose plugin's setUp does not return ok
\* this time.
RECURSIVE SetUpLoop(_, _, _, _)
SetUpLoop(core, keys, failing, acc) ==
  IF keys = <<>> THEN acc
  ELSE LET item_name == Head(keys)
           id == core.items_[item_name]
       IN SetUpLoop(core, Tail(keys), failing,
            [events |-> Append(acc.events,
                               Event("setUp", core.name_, item_name, id)),
             failed |-> IF item_name \in failing
                        THEN Append(acc.failed, item_name)
                        ELSE acc.failed])

\* Second loop of setUp: remove every failed item.
RECURSIVE RemoveLoop(_, _)
RemoveLoop(failed, acc) ==
  IF failed = <<>> THEN acc
  ELSE LET r == CoreRemove(acc.core, acc.plugins, Head(failed))
       IN RemoveLoop(Tail(failed),
                     Result(r.core, r.plugins, NoStatus, "",
                            acc.events \o r.events))

\* One loop that removes an item as soon as its setUp has failed.
RECURSIVE SetUpRemovingLoop(_, _, _)
SetUpRemovingLoop(keys, failing, acc) ==
  IF keys = <<>> THEN acc
  ELSE LET item_name == Head(keys)
           id == acc.core.items_[item_name]
           ev == Append(acc.events,
                        Event("setUp", acc.core.name_, item_name, id))
           r == CoreRemove(acc.core, acc.plugins, item_name)
       IN SetUpRemovingLoop(Tail(keys), failing,
            IF item_name \in failing
            THEN Result(r.core, r.plugins, NoStatus, "", ev \o r.events)
            ELSE Result(acc.core, acc.plugins, NoStatus, "", ev))

\* CoreSetUp that removes the failed items while it iterates.
CoreSetUp_RemoveWhileIterating(core, heap, failing) ==
  IF ~core.auto_setup_
  THEN Result(core, heap, NoStatus, "", <<>>)
  ELSE SetUpRemovingLoop(KeysInOrder(DOMAIN core.items_), failing,
                         Result(core, heap, NoStatus, "", <<>>))

\* CoreSetUp without the auto_setup_ check.
CoreSetUp_IgnoreLazy(core, heap, failing) ==
  LET first == SetUpLoop(core, KeysInOrder(DOMAIN core.items_), failing,
                         [events |-> <<>>, failed |-> <<>>])
  IN RemoveLoop(first.failed,
                Result(core, heap, NoStatus, "", first.events))

\* CoreSetUp without the second loop: failed items stay registered.
CoreSetUp_NoPrune(core, heap, failing) ==
  IF ~core.auto_setup_
  THEN Result(core, heap, NoStatus, "", <<>>)
  ELSE LET first == SetUpLoop(core, KeysInOrder(DOMAIN core.items_), failing,
                              [events |-> <<>>, failed |-> <<>>])
       IN Result(core, heap, NoStatus, "", first.events)

CoreSetUp(core, heap, failing) ==
  IF ~core.auto_setup_
  THEN Result(core, heap, NoStatus, "", <<>>)
  ELSE LET first == SetUpLoop(core, KeysInOrder(DOMAIN core.items_), failing,
                              [events |-> <<>>, failed |-> <<>>])
       IN RemoveLoop(first.failed,
                     Result(core, heap, NoStatus, "", first.events))

CoreExists(core, item_name) == MapCount(core.items_, item_name) > 0

RECURSIVE NamesLoop(_, _)
NamesLoop(keys, names) ==
  IF keys = <<>> THEN names
  ELSE NamesLoop(Tail(keys), Append(names, Head(keys)))

CoreNames(core) == NamesLoop(KeysInOrder(DOMAIN core.items_), <<>>)

CoreCount(core) == Cardinality(DOMAIN core.items_)

\* ----- RegistryFactory
Outcome(regs, heap, code, msg, fault, ret, events) ==
  [regs |-> regs, plugins |-> heap, code |-> code, msg |-> msg,
   fault |-> fault, ret |-> ret, events |-> events]

\* The outcome of an operation that threw out of registries_.at or items_.at.
Thrown(regs, heap) ==
  Outcome(regs, heap, NoStatus, "", "out_of_range", Null, <<>>)

\* FactoryCreate without the existence check: a new registry replaces the
\* one already registered under the name.
FactoryCreate_Overwrite(regs, registry_name, Type, auto_setup) ==
  MapPut(regs, registry_name,
         CoreSetName(NewRegistryCore(Type, auto_setup), registry_name))

FactoryCreate(regs, registry_name, Type, auto_setup) ==
  IF MapCount(regs, registry_name) > 0
  THEN regs
  ELSE MapPut(regs, registry_name,
              CoreSetName(NewRegistryCore(Type, auto_setup), registry_name))

\* registry: registries_.at(registry_name) throws on a missing key.
FactoryRegistry(regs, registry_name) ==
  IF registry_name \in DOMAIN regs
  THEN [fault |-> "none", ret |-> regs[registry_name]]
  ELSE [fault |-> "out_of_range", ret |-> Null]

FactoryAdd(regs, heap, registry_name, item_name) ==
  LET registry == FactoryRegistry(regs, registry_name)
  IN IF registry.fault # "none" THEN Thrown(regs, heap)
     ELSE LET r == CoreAdd(registry.ret, heap, item_name)
          IN Outcome([regs EXCEPT ![registry_name] = r.core], r.plugins,
                     r.code, r.msg, "none", Null, r.events)

FactoryGet(regs, heap, registry_name, item_name) ==
  LET registry == FactoryRegistry(regs, registry_name)
  IN IF registry.fault # "none" THEN Thrown(regs, heap)
     ELSE LET r == CoreGet(registry.ret, item_name)
          IN Outcome(regs, heap, NoStatus, "", r.fault, r.ret, <<>>)

RECURSIVE BroadcastLoop(_, _, _, _)
BroadcastLoop(regs, heap, keys, broadcast) ==
  IF keys = <<>> THEN broadcast
  ELSE BroadcastLoop(regs, heap, Tail(keys),
                     MapPut(broadcast, Head(keys),
                            CoreGetRoutes(regs[Head(keys)], heap)))

getBroadcast(regs, heap) ==
  BroadcastLoop(regs, heap, KeysInOrder(DOMAIN regs), EmptyMap)

\* FactoryCall that looks the item up in the first registry that has it.
FactoryCall_AnyRegistry(regs, heap, registry_name, item_name, pluginCode) ==
  LET having == {r \in DOMAIN regs : item_name \in DOMAIN regs[r].items_}
  IN IF MapCount(regs, registry_name) > 0 /\ having # {}
     THEN LET first == CHOOSE r \in having : \A q \in having : r <= q
              res == CoreCall(regs[first], heap, item_name, pluginCode)
          IN Outcome(regs, heap, res.code, res.msg, "none", Null, res.events)
     ELSE Outcome(regs, heap, 1, "Cannot call", "none", Null, <<>>)

FactoryCall(regs, heap, registry_name, item_name, pluginCode) ==
  IF MapCount(regs, registry_name) > 0
  THEN LET r == CoreCall(regs[registry_name], heap, item_name, pluginCode)
       IN Outcome([regs EXCEPT ![registry_name] = r.core], r.plugins,
                  r.code, r.msg, "none", Null, r.events)
  ELSE Outcome(regs, heap, 1, "Cannot call", "none", Null, <<>>)

\* failing is the set of <<registry name, item name>> whose plugin's setUp
\* does not return ok during this pass.
FailingIn(failing, registry_name) ==
  {n \in ItemNames : <<registry_name, n>> \in failing}

\* FactorySetUpLoop that stops at the first registry that lost an item.
RECURSIVE FactorySetUpLoop_StopOnFailure(_, _, _)
FactorySetUpLoop_StopOnFailure(keys, failing, acc) ==
  IF keys = <<>> THEN acc
  ELSE LET name == Head(keys)
           r == CoreSetUp(acc.regs[name], acc.plugins,
                          FailingIn(failing, name))
           next == Outcome([acc.regs EXCEPT ![name] = r.core], r.plugins,
                           NoStatus, "", "none", Null, acc.events \o r.events)
       IN IF r.core # acc.regs[name] THEN next
          ELSE FactorySetUpLoop_StopOnFailure(Tail(keys), failing, next)

RECURSIVE FactorySetUpLoop(_, _, _)
FactorySetUpLoop(keys, failing, acc) ==
  IF keys = <<>> THEN acc
  ELSE LET name == Head(keys)
           r == CoreSetUp(acc.regs[name], acc.plugins,
                          FailingIn(failing, name))
       IN FactorySetUpLoop(Tail(keys), failing,
            Outcome([acc.regs EXCEPT ![name] = r.core], r.plugins,
                    NoStatus, "", "none", Null, acc.events \o r.events))

FactorySetUp(regs, heap, failing) ==
  FactorySetUpLoop(KeysInOrder(DOMAIN regs), failing,
                   Outcome(regs, heap, NoStatus, "", "none", Null, <<>>))

\* all(registry_name): the items_ map of the registry.
FactoryAll(regs, heap, registry_name) ==
  LET registry == FactoryRegistry(regs, registry_name)
  IN IF registry.fault # "none" THEN Thrown(regs, heap)
     ELSE Outcome(regs, heap, NoStatus, "", "none", registry.ret.items_, <<>>)

FactoryExists(regs, heap, registry_name, item_name) ==
  IF MapCount(regs, registry_name) = 0
  THEN Outcome(regs, heap, NoStatus, "", "none", FALSE, <<>>)
  ELSE LET registry == FactoryRegistry(regs, registry_name)
       IN IF registry.fault # "none" THEN Thrown(regs, heap)
          ELSE Outcome(regs, heap, NoStatus, "", "none",
                       CoreExists(registry.ret, item_name), <<>>)

\* names: the guard is registries_.at(registry_name) == 0, which throws on a
\* missing key; a registered shared_ptr is never null, so the empty-vector
\* branch is never taken.
FactoryNames(regs, heap, registry_name) ==
  LET guard == FactoryRegistry(regs, registry_name)
  IN IF guard.fault # "none" THEN Thrown(regs, heap)
     ELSE LET registry == FactoryRegistry(regs, registry_name)
          IN IF registry.fault # "none" THEN Thrown(regs, heap)
             ELSE Outcome(regs, heap, NoStatus, "", "none",
                          CoreNames(registry.ret), <<>>)

\* count(): the number of registries.
FactoryCountAll(regs) == Cardinality(DOMAIN regs)

\* FactoryCount without the count check: registry() is called at once.
FactoryCount_Unchecked(regs, heap, registry_name) ==
  LET registry == FactoryRegistry(regs, registry_name)
  IN IF registry.fault # "none" THEN Thrown(regs, heap)
     ELSE Outcome(regs, heap, NoStatus, "", "none",
                  CoreCount(registry.ret), <<>>)

\* count(registry_name)
FactoryCount(regs, heap, registry_name) ==
  IF MapCount(regs, registry_name) = 0
  THEN Outcome(regs, heap, NoStatus, "", "none", 0, <<>>)
  ELSE LET registry == FactoryRegistry(regs, registry_name)
       IN IF registry.fault # "none" THEN Thrown(regs, heap)
          ELSE Outcome(regs, heap, NoStatus, "", "none",
                       CoreCount(registry.ret), <<>>)

\* Registry::registry(registry_name)->remove(item_name)
RegistryRemove(regs, heap, registry_name, item_name) ==
  LET registry == FactoryRegistry(regs, registry_name)
  IN IF registry.fault # "none" THEN Thrown(regs, heap)
     ELSE LET r == CoreRemove(registry.ret, heap, item_name)
          IN Outcome([regs EXCEPT ![registry_name] = r.core], r.plugins,
                     NoStatus, "", "none", Null, r.events)

\* Registry::registry(registry_name)->setUp()
RegistrySetUp(regs, heap, registry_name, failing) ==
  LET registry == FactoryRegistry(regs, registry_name)
  IN IF registry.fault # "none" THEN Thrown(regs, heap)
     ELSE LET r == CoreSetUp(registry.ret, heap,
                             FailingIn(failing, registry_name))
          IN Outcome([regs EXCEPT ![registry_name] = r.core], r.plugins,
                     NoStatus, "", "none", Null, r.events)

\* ----- the state machine
NoArg == [type |-> "", auto |-> FALSE, failing |-> {}]

Op(op, reg, item, arg, out) ==
  [op |-> op, reg |-> reg, item |-> item, arg |-> arg, code |-> out.code,
   msg |-> out.msg, fault |-> out.fault, ret |-> out.ret]

\* The <<registry name, item name>> pairs registered in the registries rs.
Present(rs) ==
  {p \in (rs \cap DOMAIN registries_) \X ItemNames :
     p[2] \in DOMAIN registries_[p[1]].items_}

\* No operation is in progress and no result is waiting for the caller.
NoOp == [op |-> "none", reg |-> 0, item |-> 0, arg |-> NoArg,
         code |-> NoStatus, msg |-> "", fault |-> "none", ret |-> Null]

\* The operations are called one after another from one thread: the next
\* one starts after the caller has taken the result of the last one.
Idle == lastOp = NoOp

Init ==
  /\ registries_ = EmptyMap
  /\ plugins = <<>>
  /\ lastOp = NoOp
  /\ trace = <<>>
  /\ live = [r \in RegistryNames |-> {}]
  /\ threads = EmptyMap

Create(r, T, a) ==
  /\ Idle
  /\ registries_' = FactoryCreate(registries_, r, T, a)
  /\ lastOp' = Op("create", r, 0, [type |-> T, auto |-> a, failing |-> {}],
                  Outcome(registries_', plugins, NoStatus, "", "none", 0, <<>>))
  /\ trace' = <<>>
  /\ UNCHANGED threads
  /\ UNCHANGED <<plugins, live>>

Add(r, n) ==
  LET out == FactoryAdd(registries_, plugins, r, n)
  IN /\ Idle
     /\ Len(out.plugins) <= MaxPlugins
     /\ registries_' = out.regs
     /\ plugins' = out.plugins
     /\ lastOp' = Op("add", r, n, NoArg, out)
     /\ trace' = out.events
     /\ UNCHANGED threads
     /\ live' = IF out.fault = "none" /\ out.code = 0
                THEN [live EXCEPT ![r] = @ \cup {n}]
                ELSE live

Get(r, n) ==
  LET out == FactoryGet(registries_, plugins, r, n)
  IN /\ Idle
     /\ lastOp' = Op("get", r, n, NoArg, out)
     /\ trace' = out.events
     /\ UNCHANGED threads
     /\ UNCHANGED <<registries_, plugins, live>>

Remove(r, n) ==
  LET out == RegistryRemove(registries_, plugins, r, n)
  IN /\ Idle
     /\ registries_' = out.regs
     /\ plugins' = out.plugins
     /\ lastOp' = Op("remove", r, n, NoArg, out)
     /\ trace' = out.events
     /\ UNCHANGED threads
     /\ live' = IF out.fault = "none"
                THEN [live EXCEPT ![r] = @ \ {n}]
                ELSE live

Call(r, n, pluginCode) ==
  LET out == FactoryCall(registries_, plugins, r, n, pluginCode)
  IN /\ Idle
     /\ registries_' = out.regs
     /\ plugins' = out.plugins
     /\ lastOp' = Op("call", r, n, NoArg, out)
     /\ trace' = out.events
     /\ UNCHANGED threads
     /\ UNCHANGED live

All(r) ==
  LET out == FactoryAll(registries_, plugins, r)
  IN /\ Idle
     /\ registries_' = out.regs
     /\ plugins' = out.plugins
     /\ lastOp' = Op("all", r, 0, NoArg, out)
     /\ trace' = out.events
     /\ UNCHANGED threads
     /\ UNCHANGED live

Names(r) ==
  LET out == FactoryNames(registries_, plugins, r)
  IN /\ Idle
     /\ registries_' = out.regs
     /\ plugins' = out.plugins
     /\ lastOp' = Op("names", r, 0, NoArg, out)
     /\ trace' = out.events
     /\ UNCHANGED threads
     /\ UNCHANGED live

Exists(r, n) ==
  LET out == FactoryExists(registries_, plugins, r, n)
  IN /\ Idle
     /\ registries_' = out.regs
     /\ plugins' = out.plugins
     /\ lastOp' = Op("exists", r, n, NoArg, out)
     /\ trace' = out.events
     /\ UNCHANGED threads
     /\ UNCHANGED live

Count(r) ==
  LET out == FactoryCount(registries_, plugins, r)
  IN /\ Idle
     /\ registries_' = out.regs
     /\ plugins' = out.plugins
     /\ lastOp' = Op("count", r, 0, NoArg, out)
     /\ trace' = out.events
     /\ UNCHANGED threads
     /\ UNCHANGED live

\* The names a setUp pass prunes from registry r: setUp removes the items of
\* a registry that sets its items up whose setUp failed.
Pruned(r, failing) ==
  IF r \in DOMAIN registries_ /\ registries_[r].auto_setup_
  THEN FailingIn(failing, r)
  ELSE {}

SetUp(failing) ==
  LET out == FactorySetUp(registries_, plugins, failing)
  IN /\ Idle
     /\ registries_' = out.regs
     /\ plugins' = out.plugins
     /\ lastOp' = Op("setUp", 0, 0,
                     [type |-> "", auto |-> FALSE, failing |-> failing], out)
     /\ trace' = out.events
     /\ UNCHANGED threads
     /\ live' = [r \in RegistryNames |-> live[r] \ Pruned(r, failing)]

ContainerSetUp(r, failing) ==
  LET out == RegistrySetUp(registries_, plugins, r, failing)
  IN /\ Idle
     /\ registries_' = out.regs
     /\ plugins' = out.plugins
     /\ lastOp' = Op("containerSetUp", r, 0,
                     [type |-> "", auto |-> FALSE, failing |-> failing], out)
     /\ trace' = out.events
     /\ UNCHANGED threads
     /\ live' = [live EXCEPT ![r] = @ \ Pruned(r, failing)]

\* The caller takes the result of the operation that has just returned.
Return ==
  /\ ~Idle
  /\ lastOp' = NoOp
  /\ trace' = <<>>
  /\ UNCHANGED threads
  /\ UNCHANGED <<registries_, plugins, live>>

Next ==
  \/ Return
  \/ \E r \in RegistryNames, T \in Types, a \in BOOLEAN : Create(r, T, a)
  \/ \E r \in RegistryNames, n \in ItemNames : Add(r, n)
  \/ \E r \in RegistryNames, n \in ItemNames : Get(r, n)
  \/ \E r \in RegistryNames, n \in ItemNames : Remove(r, n)
  \/ \E r \in RegistryNames, n \in ItemNames, c \in {0, 1} : Call(r, n, c)
  \/ \E r \in RegistryNames : All(r)
  \/ \E r \in RegistryNames : Names(r)
  \/ \E r \in RegistryNames, n \in ItemNames : Exists(r, n)
  \/ \E r \in RegistryNames : Count(r)
  \/ \E failing \in SUBSET Present(RegistryNames) : SetUp(failing)
  \/ \E r \in RegistryNames :
       \E failing \in SUBSET Present({r}) : ContainerSetUp(r, failing)

Spec == Init /\ [][Next]_vars

TypeOK ==
  /\ DOMAIN registries_ \subseteq RegistryNames
  /\ \A r \in DOMAIN registries_ :
       /\ DOMAIN registries_[r].items_ \subseteq ItemNames
       /\ \A n \in DOMAIN registries_[r].items_ :
            registries_[r].items_[n] \in 1..Len(plugins)
  /\ Len(plugins) <= MaxPlugins

\* ----- threads after startup
\* call and remove hold no lock: another thread can run between the
\* presence check, the items_[item_name] lookup and the plugin method of one
\* call, and between the presence check, the tearDown and the erase of one
\* remove.

\* std::map::operator[]: the mapped reference; a missing key is inserted
\* with a null reference.
MapIndex(m, k) ==
  IF k \in DOMAIN m
  THEN [map |-> m, ref |-> m[k]]
  ELSE [map |-> MapPut(m, k, Null), ref |-> Null]

\* The guards of call that only look at the registry name.
CallChecked_RegistryOnly(regs, registry_name, item_name) ==
  IF MapCount(regs, registry_name) > 0 THEN "found" ELSE "no registry"

\* The guards of RegistryFactory::call and RegistryCore::call.
CallChecked(regs, registry_name, item_name) ==
  IF MapCount(regs, registry_name) > 0
  THEN IF MapCount(regs[registry_name].items_, item_name) > 0
       THEN "found" ELSE "no item"
  ELSE "no registry"

IdleThread ==
  [pc |-> "idle", op |-> "none", reg |-> 0, item |-> 0, ref |-> Null,
   code |-> NoStatus, fault |-> "none", missing |-> FALSE, stale |-> FALSE]

\* The plugins some items_ entry still refers to; the others have been
\* destroyed with their last shared_ptr.
Registered(regs) ==
  {regs[r].items_[n] : <<r, n>> \in
     {p \in (DOMAIN regs) \X ItemNames : p[2] \in DOMAIN regs[p[1]].items_}}
     \ {Null}

CallBegin(t, r, n) ==
  LET checked == CallChecked(registries_, r, n)
      started == [IdleThread EXCEPT !.op = "call", !.reg = r, !.item = n]
  IN /\ threads[t].pc = "idle"
     /\ threads' = [threads EXCEPT ![t] =
          IF checked = "found"
          THEN [started EXCEPT !.pc = "lookup"]
          ELSE [started EXCEPT !.pc = "done", !.code = 1]]
     /\ UNCHANGED <<registries_, plugins, lastOp, trace, live>>

CallLookup(t) ==
  LET th == threads[t]
      ix == MapIndex(registries_[th.reg].items_, th.item)
  IN /\ th.pc = "lookup"
     /\ th.op = "call"
     /\ registries_' = [registries_ EXCEPT ![th.reg].items_ = ix.map]
     /\ threads' = [threads EXCEPT ![t] =
          [th EXCEPT !.pc = "invoke", !.ref = ix.ref,
                     !.missing = (th.item \notin
                                    DOMAIN registries_[th.reg].items_)]]
     /\ UNCHANGED <<plugins, lastOp, trace, live>>

\* The plugin's call through the reference looked up: a null reference
\* faults; a reference to a plugin that has been erased meanwhile is
\* dangling, and the call either faults or runs on the dead object.
CallInvoke(t, pluginCode, crash) ==
  LET th == threads[t]
      dangling == th.ref # Null /\ th.ref \notin Registered(registries_)
  IN /\ th.pc = "invoke"
     /\ crash => dangling
     /\ threads' = [threads EXCEPT ![t] =
          IF th.ref = Null
          THEN [th EXCEPT !.pc = "done", !.fault = "null_deref"]
          ELSE IF crash
          THEN [th EXCEPT !.pc = "done", !.fault = "use_after_free",
                          !.stale = plugins[th.ref].tearDowns > 0]
          ELSE [th EXCEPT !.pc = "done", !.code = pluginCode,
                          !.stale = plugins[th.ref].tearDowns > 0]]
     /\ UNCHANGED <<registries_, plugins, lastOp, trace, live>>

\* Registry::registry(r)->remove(n), up to the presence check.
RemoveBegin(t, r, n) ==
  LET registry == FactoryRegistry(registries_, r)
      started == [IdleThread EXCEPT !.op = "remove", !.reg = r, !.item = n]
  IN /\ threads[t].pc = "idle"
     /\ threads' = [threads EXCEPT ![t] =
          IF registry.fault # "none"
          THEN [started EXCEPT !.pc = "done", !.fault = registry.fault]
          ELSE IF MapCount(registry.ret.items_, n) > 0
          THEN [started EXCEPT !.pc = "teardown"]
          ELSE [started EXCEPT !.pc = "done"]]
     /\ UNCHANGED <<registries_, plugins, lastOp, trace, live>>

RemoveTearDown(t) ==
  LET th == threads[t]
      ix == MapIndex(registries_[th.reg].items_, th.item)
  IN /\ th.pc = "teardown"
     /\ registries_' = [registries_ EXCEPT ![th.reg].items_ = ix.map]
     /\ plugins' = IF ix.ref = Null THEN plugins
                   ELSE [plugins EXCEPT ![ix.ref].tearDowns = @ + 1]
     /\ threads' = [threads EXCEPT ![t] =
          IF ix.ref = Null
          THEN [th EXCEPT !.pc = "done", !.fault = "null_deref"]
          ELSE [th EXCEPT !.pc = "erase", !.ref = ix.ref]]
     /\ UNCHANGED <<lastOp, trace, live>>

RemoveErase(t) ==
  LET th == threads[t]
  IN /\ th.pc = "erase"
     /\ registries_' = [registries_ EXCEPT ![th.reg].items_ =
                          MapErase(@, th.item)]
     /\ threads' = [threads EXCEPT ![t] = [th EXCEPT !.pc = "done"]]
     /\ live' = [live EXCEPT ![th.reg] = @ \ {th.item}]
     /\ UNCHANGED <<plugins, lastOp, trace>>

\* The operation returns to the thread that called it.
ThreadReturn(t) ==
  /\ threads[t].pc = "done"
  /\ threads[t].fault = "none"
  /\ threads' = [threads EXCEPT ![t] = IdleThread]
  /\ UNCHANGED <<registries_, plugins, lastOp, trace, live>>

\* The registries at the end of startup: the registries of `created` have
\* been created and the items of `added` added, in order.
RECURSIVE CreateAll(_, _)
CreateAll(regs, names) ==
  IF names = <<>> THEN regs
  ELSE CreateAll(FactoryCreate(regs, Head(names), "Plugin", TRUE),
                 Tail(names))

RECURSIVE AddAll(_, _)
AddAll(acc, items) ==
  IF items = {} THEN acc
  ELSE LET p == CHOOSE x \in items :
                  \A y \in items :
                    x[1] < y[1] \/ (x[1] = y[1] /\ x[2] <= y[2])
       IN AddAll(FactoryAdd(acc.regs, acc.plugins, p[1], p[2]),
                 items \ {p})

StartedUp(created, added) ==
  AddAll(Outcome(CreateAll(EmptyMap, KeysInOrder(created)), <<>>,
                 NoStatus, "", "none", Null, <<>>),
         added)

\* The last registry name is never created: it is the unknown name.
Created == RegistryNames \ {MaxRegistries}

TrafficInit(ids) ==
  \E added \in SUBSET (Created \X ItemNames) :
    /\ Cardinality(added) <= MaxPlugins
    /\ registries_ = StartedUp(Created, added).regs
    /\ plugins = StartedUp(Created, added).plugins
    /\ lastOp = NoOp
    /\ trace = <<>>
    /\ live = [r \in RegistryNames |-> {p[2] : p \in {q \in added : q[1] = r}}]
    /\ threads = [t \in ids |-> IdleThread]

\* Several threads call plugins; nothing else uses the registry.
NextCalls ==
  \/ \E t \in DOMAIN threads, r \in RegistryNames, n \in ItemNames :
       CallBegin(t, r, n)
  \/ \E t \in DOMAIN threads : CallLookup(t)
  \/ \E t \in DOMAIN threads, c \in {0, 1}, crash \in BOOLEAN :
       CallInvoke(t, c, crash)
  \/ \E t \in DOMAIN threads : ThreadReturn(t)

SpecCalls == TrafficInit(1..MaxThreads) /\ [][NextCalls]_vars

\* One thread calls plugins while another removes items.
NextRace ==
  \/ \E r \in RegistryNames, n \in ItemNames : CallBegin("caller", r, n)
  \/ CallLookup("caller")
  \/ \E c \in {0, 1}, crash \in BOOLEAN : CallInvoke("caller", c, crash)
  \/ \E r \in RegistryNames, n \in ItemNames : RemoveBegin("remover", r, n)
  \/ RemoveTearDown("remover")
  \/ RemoveErase("remover")
  \/ \E t \in DOMAIN threads : ThreadReturn(t)

SpecRace == TrafficInit({"caller", "remover"}) /\ [][NextRace]_vars

\* ----- properties

IsPresent(r, n) ==
  r \in DOMAIN registries_ /\ n \in DOMAIN registries_[r].items_

\* The positions of the events of one kind on one plugin in a trace.
At(tr, kind, id) ==
  {i \in 1..Len(tr) : tr[i].kind = kind /\ tr[i].plugin = id}

Kinds(tr, kinds) == {i \in 1..Len(tr) : tr[i].kind \in kinds}

\* C1: add of an item name that is already present fails with the
\* duplicate-item status, constructs nothing, leaves the registries and the
\* plugins unchanged, and a call of that name still reaches the same instance.
C1_DuplicateAddRejected ==
  [][\A r \in RegistryNames, n \in ItemNames :
       (lastOp'.op = "add" /\ lastOp'.reg = r /\ lastOp'.item = n
          /\ IsPresent(r, n))
       => /\ lastOp'.fault = "none"
          /\ lastOp'.code = 1
          /\ lastOp'.msg = "Duplicate registry item exists"
          /\ trace' = <<>>
          /\ plugins' = plugins
          /\ registries_' = registries_
          /\ FactoryCall(registries_', plugins', r, n, 0).events
               = <<Event("call", r, n, registries_[r].items_[n])>>]_vars

C1_Witness ==
  /\ lastOp.op = "add"
  /\ lastOp.code = 1
  /\ IsPresent(lastOp.reg, lastOp.item)

C3_RemoveTearsDownThenErases ==
  [][\A r \in RegistryNames, n \in ItemNames :
       (lastOp'.op = "remove" /\ lastOp'.reg = r /\ lastOp'.item = n
          /\ IsPresent(r, n))
       => LET id == registries_[r].items_[n]
          IN /\ lastOp'.fault = "none"
             /\ Cardinality(At(trace', "tearDown", id)) = 1
             /\ Cardinality(At(trace', "erase", id)) = 1
             /\ \A i \in At(trace', "tearDown", id) :
                  \A j \in At(trace', "erase", id) : i < j
             /\ plugins'[id].tearDowns = plugins[id].tearDowns + 1
             /\ ~CoreExists(registries_'[r], n)
             /\ \A c \in {0, 1} :
                  LET out == FactoryCall(registries_', plugins', r, n, c)
                  IN /\ out.code = 1
                     /\ out.msg = "Cannot call registry item"
                     /\ out.events = <<>>]_vars

C3_Witness ==
  /\ lastOp.op = "remove"
  /\ Kinds(trace, {"tearDown"}) # {}
  /\ ~IsPresent(lastOp.reg, lastOp.item)

\* C4: remove of a name that is not present in the container reports no
\* error, tears nothing down and leaves the items and plugins unchanged.
C4_RemoveAbsentIsNoOp ==
  [][\A r \in RegistryNames, n \in ItemNames :
       (lastOp'.op = "remove" /\ lastOp'.reg = r /\ lastOp'.item = n
          /\ r \in DOMAIN registries_ /\ ~IsPresent(r, n))
       => /\ lastOp'.fault = "none"
          /\ lastOp'.code = NoStatus
          /\ trace' = <<>>
          /\ registries_' = registries_
          /\ plugins' = plugins]_vars

C4_Witness ==
  /\ lastOp.op = "remove"
  /\ lastOp.fault = "none"
  /\ trace = <<>>
  /\ registries_[lastOp.reg].items_ # EmptyMap

\* A setUp step (of the Directory, or of the container r itself) ran the
\* setUp of the container r.
RanSetUpOf(r) ==
  /\ r \in DOMAIN registries_
  /\ \/ lastOp'.op = "setUp"
     \/ lastOp'.op = "containerSetUp" /\ lastOp'.reg = r

OfRegistry(tr, r) == {i \in 1..Len(tr) : tr[i].reg = r}

\* C5: setUp of a lazy container, directly or through the Directory's
\* setUp, calls no setUp and no tearDown of its items and leaves its item
\* set and its items unchanged, whichever of its items would fail.
C5_LazySetUpDoesNothing ==
  [][\A r \in RegistryNames :
       (RanSetUpOf(r) /\ ~registries_[r].auto_setup_)
       => /\ OfRegistry(trace', r) = {}
          /\ registries_'[r] = registries_[r]
          /\ \A n \in DOMAIN registries_[r].items_ :
               plugins'[registries_[r].items_[n]]
                 = plugins[registries_[r].items_[n]]]_vars

C5_Witness ==
  /\ lastOp.op = "setUp"
  /\ \E r \in DOMAIN registries_ :
       /\ ~registries_[r].auto_setup_
       /\ Cardinality(DOMAIN registries_[r].items_) = 2
       /\ FailingIn(lastOp.arg.failing, r) # {}

\* C6: setUp of a container that sets its items up calls setUp once on every
\* item present when it starts; afterwards the items are exactly those whose
\* setUp succeeded, each the same instance under the same name and reached
\* by a call of that name.
C6_SetUpKeepsExactlySuccesses ==
  [][\A r \in RegistryNames :
       (RanSetUpOf(r) /\ registries_[r].auto_setup_)
       => LET before == registries_[r].items_
              after == registries_'[r].items_
          IN /\ \A n \in DOMAIN before :
                  Cardinality(At(trace', "setUp", before[n])) = 1
             /\ DOMAIN after
                  = (DOMAIN before) \ FailingIn(lastOp'.arg.failing, r)
             /\ \A n \in DOMAIN after :
                  /\ after[n] = before[n]
                  /\ FactoryCall(registries_', plugins', r, n, 0).events
                       = <<Event("call", r, n, before[n])>>]_vars

C6_Witness ==
  /\ lastOp.op = "setUp"
  /\ \E r \in DOMAIN registries_ :
       /\ registries_[r].auto_setup_
       /\ FailingIn(lastOp.arg.failing, r) # {}
       /\ registries_[r].items_ # EmptyMap
       /\ \E i \in Kinds(trace, {"erase"}) : trace[i].reg = r

\* C7: in every state the routes of a container have exactly the names
\* added to it and not removed or pruned since, each with the route info of
\* the instance now registered, and the broadcast has exactly the created
\* containers, each with its routes.
C7_RoutesMatchLiveItems ==
  /\ DOMAIN getBroadcast(registries_, plugins) = DOMAIN registries_
  /\ \A r \in RegistryNames :
       IF r \in DOMAIN registries_
       THEN LET routes == CoreGetRoutes(registries_[r], plugins)
            IN /\ DOMAIN routes = live[r]
               /\ \A n \in DOMAIN routes :
                    routes[n] = routeInfo(plugins, registries_[r].items_[n])
               /\ getBroadcast(registries_, plugins)[r] = routes
               /\ DOMAIN getBroadcast(registries_, plugins)[r] = live[r]
       ELSE live[r] = {}

C7_Witness ==
  /\ Kinds(trace, {"erase"}) # {}
  /\ \E r \in DOMAIN registries_ :
       /\ live[r] # {}
       /\ \E i \in Kinds(trace, {"erase"}) : trace[i].reg = r

\* C8: a Directory call invokes the call of the item registered under
\* (registry name, item name) and of no other plugin; for an unknown
\* registry name or an absent item name it returns a failure status and
\* invokes nothing.  A call changes no registry state.
C8_CallDispatchesToMatchingPair ==
  [][\A r \in RegistryNames, n \in ItemNames :
       (lastOp'.op = "call" /\ lastOp'.reg = r /\ lastOp'.item = n)
       => /\ lastOp'.fault = "none"
          /\ registries_' = registries_
          /\ plugins' = plugins
          /\ IF IsPresent(r, n)
             THEN trace' = <<Event("call", r, n, registries_[r].items_[n])>>
             ELSE /\ trace' = <<>>
                  /\ lastOp'.code = 1
                  /\ lastOp'.msg = IF r \in DOMAIN registries_
                                   THEN "Cannot call registry item"
                                   ELSE "Cannot call"]_vars

C8_Witness ==
  /\ lastOp.op = "call"
  /\ Kinds(trace, {"call"}) # {}
  /\ \E r \in DOMAIN registries_ :
       r # lastOp.reg /\ IsPresent(r, lastOp.item)

\* C9: in every state count() of a container is the number of names added
\* to it and not removed since, names() lists exactly those names, each
\* once, and exists(n) holds exactly for them.
C9_CountNamesExistsMatchLive ==
  \A r \in DOMAIN registries_ :
    LET names == CoreNames(registries_[r])
    IN /\ CoreCount(registries_[r]) = Cardinality(live[r])
       /\ {names[i] : i \in 1..Len(names)} = live[r]
       /\ Len(names) = Cardinality(live[r])
       /\ \A n \in ItemNames : CoreExists(registries_[r], n) <=> n \in live[r]

C9_Witness ==
  /\ lastOp.op = "add"
  /\ lastOp.code = 0
  /\ Len(plugins) = 2
  /\ plugins[1].tearDowns = 1
  /\ Cardinality(live[lastOp.reg]) = 1

\* C10: create of a registry name that already exists changes nothing: the
\* containers, their items and their auto_setup_ flags stay as they are,
\* whatever auto_setup value and plugin type the second create passes.
C10_CreateExistingIsNoOp ==
  [][\A r \in RegistryNames :
       (lastOp'.op = "create" /\ lastOp'.reg = r /\ r \in DOMAIN registries_)
       => /\ registries_' = registries_
          /\ plugins' = plugins
          /\ live' = live
          /\ trace' = <<>>
          /\ lastOp'.fault = "none"]_vars

C10_Witness ==
  /\ lastOp.op = "create"
  /\ lastOp.reg \in DOMAIN registries_
  /\ registries_[lastOp.reg].items_ # EmptyMap
  /\ registries_[lastOp.reg].auto_setup_ # lastOp.arg.auto
  /\ lastOp.arg.type = "Derived"

\* C11 as stated: Directory add for a registry name that is not known
\* returns an explicit failure status without faulting, constructs no item
\* and leaves the registries and the plugins unchanged.
C11_AddUnknownRegistryFails ==
  [][\A r \in RegistryNames, n \in ItemNames :
       (lastOp'.op = "add" /\ lastOp'.reg = r /\ lastOp'.item = n
          /\ r \notin DOMAIN registries_)
       => /\ lastOp'.fault = "none"
          /\ lastOp'.code = 1
          /\ trace' = <<>>
          /\ registries_' = registries_
          /\ plugins' = plugins]_vars

\* C12 as stated: Directory names and all for a registry name that is not
\* known return an explicit not-found or empty result and never fault.
C12_NamesAllNeverFault ==
  (lastOp.op \in {"names", "all"} /\ lastOp.reg \notin DOMAIN registries_)
  => lastOp.fault = "none"

\* C13: Directory count(registry name) is 0 and exists(registry name, item
\* name) is false for a registry name that is not known, without a fault
\* and without creating a registry: the registries and count() stay as
\* they are.
C13_CountExistsUnknownRegistry ==
  [][\A r \in RegistryNames :
       (lastOp'.op \in {"count", "exists"} /\ lastOp'.reg = r
          /\ r \notin DOMAIN registries_)
       => /\ lastOp'.fault = "none"
          /\ lastOp'.ret = (IF lastOp'.op = "count" THEN 0 ELSE FALSE)
          /\ registries_' = registries_
          /\ plugins' = plugins
          /\ FactoryCountAll(registries_') = FactoryCountAll(registries_)
          /\ r \notin DOMAIN registries_']_vars

C13_Witness ==
  /\ lastOp.op \in {"count", "exists"}
  /\ lastOp.reg \notin DOMAIN registries_
  /\ \E r \in DOMAIN registries_ : registries_[r].items_ # EmptyMap

\* The items of the registries that set their items up (auto_setup_).
AutoPresent ==
  {p \in Present(RegistryNames) : registries_[p[1]].auto_setup_}

Erased(tr) == {tr[i].plugin : i \in Kinds(tr, {"erase"})}

\* C14: the Directory's setUp runs over every container to the end: setUp is
\* called once on every item of every container that sets its items up,
\* whichever items fail, and exactly the failed items are removed; every
\* other item stays registered as it was.
C14_SetUpRunsToCompletion ==
  [][lastOp'.op = "setUp"
     => LET failed == AutoPresent \cap lastOp'.arg.failing
        IN /\ lastOp'.fault = "none"
           /\ \A p \in AutoPresent :
                Cardinality(At(trace', "setUp",
                               registries_[p[1]].items_[p[2]])) = 1
           /\ Erased(trace')
                = {registries_[p[1]].items_[p[2]] : p \in failed}
           /\ DOMAIN registries_' = DOMAIN registries_
           /\ \A r \in DOMAIN registries_ :
                registries_'[r].items_
                  = [n \in {m \in DOMAIN registries_[r].items_ :
                              <<r, m>> \notin failed}
                       |-> registries_[r].items_[n]]]_vars

C14_Witness ==
  /\ lastOp.op = "setUp"
  /\ \E i \in Kinds(trace, {"erase"}) :
       \E j \in Kinds(trace, {"setUp"}) :
         /\ i < j
         /\ trace[i].reg # trace[j].reg
         /\ IsPresent(trace[j].reg, trace[j].item)

\* C15 as stated: after the Directory's setUp every item still present in
\* any container has had its setUp called with success, and every item
\* whose setUp failed is absent.
C15_SetUpIsBarrier ==
  lastOp.op = "setUp"
  => /\ \A p \in Present(RegistryNames) :
          /\ At(trace, "setUp", registries_[p[1]].items_[p[2]]) # {}
          /\ p \notin lastOp.arg.failing
     /\ \A i \in Kinds(trace, {"setUp"}) :
          <<trace[i].reg, trace[i].item>> \in lastOp.arg.failing
          => ~IsPresent(trace[i].reg, trace[i].item)

\* C15 amended: after the Directory's setUp every item still present in a
\* container that sets its items up has had its setUp called with success,
\* and every item whose setUp failed is absent; the items of a lazy
\* container are present without any setUp call.
C15_SetUpIsBarrierForAutoSetup ==
  lastOp.op = "setUp"
  => /\ \A p \in Present(RegistryNames) :
          IF registries_[p[1]].auto_setup_
          THEN /\ Cardinality(At(trace, "setUp",
                                 registries_[p[1]].items_[p[2]])) = 1
               /\ p \notin lastOp.arg.failing
          ELSE At(trace, "setUp", registries_[p[1]].items_[p[2]]) = {}
     /\ \A i \in Kinds(trace, {"setUp"}) :
          <<trace[i].reg, trace[i].item>> \in lastOp.arg.failing
          => ~IsPresent(trace[i].reg, trace[i].item)

C15_Witness ==
  /\ lastOp.op = "setUp"
  /\ Kinds(trace, {"setUp"}) # {}
  /\ \E p \in Present(RegistryNames) : ~registries_[p[1]].auto_setup_
  /\ \E p \in Present(RegistryNames) : registries_[p[1]].auto_setup_

\* C16: one setUp pass of a container that sets its items up is two-phase:
\* setUp is called on every item before any tearDown or erase; then exactly
\* the failed names are removed, each by one tearDown followed by one erase,
\* and no item whose setUp succeeded is torn down.
C16_SetUpIsTwoPhase ==
  [][\A r \in RegistryNames :
       (RanSetUpOf(r) /\ registries_[r].auto_setup_)
       => LET own == OfRegistry(trace', r)
              ups == own \cap Kinds(trace', {"setUp"})
              downs == own \cap Kinds(trace', {"tearDown", "erase"})
              before == registries_[r].items_
              failed == (DOMAIN before) \cap FailingIn(lastOp'.arg.failing, r)
          IN /\ Cardinality(ups) = Cardinality(DOMAIN before)
             /\ \A i \in ups : \A j \in downs : i < j
             /\ \A n \in DOMAIN before :
                  LET td == own \cap At(trace', "tearDown", before[n])
                      er == own \cap At(trace', "erase", before[n])
                  IN IF n \in failed
                     THEN /\ Cardinality(td) = 1
                          /\ Cardinality(er) = 1
                          /\ \A i \in td : er = {i + 1}
                     ELSE td = {} /\ er = {}
             /\ Cardinality(downs) = 2 * Cardinality(failed)]_vars

C16_Witness ==
  /\ lastOp.op \in {"setUp", "containerSetUp"}
  /\ Len(trace) >= 4
  /\ trace[1].kind = "setUp"
  /\ trace[2].kind = "setUp"
  /\ trace[2].reg = trace[1].reg
  /\ trace[3].kind = "tearDown"
  /\ trace[3].plugin = trace[1].plugin
  /\ IsPresent(trace[2].reg, trace[2].item)

NowRegistered == {registries_[p[1]].items_[p[2]] : p \in Present(RegistryNames)}

\* C17: tearDown has been called at most once on every plugin instance, never
\* on an instance that is still registered, and only by an operation that
\* removes it: every tearDown is directly followed by the erase of the same
\* instance, in a remove or a setUp.
C17_TearDownAtMostOnce ==
  /\ \A id \in DOMAIN plugins :
       /\ plugins[id].tearDowns <= 1
       /\ id \in NowRegistered => plugins[id].tearDowns = 0
  /\ \A i \in Kinds(trace, {"tearDown"}) :
       /\ lastOp.op \in {"remove", "setUp", "containerSetUp"}
       /\ i < Len(trace)
       /\ trace[i + 1].kind = "erase"
       /\ trace[i + 1].plugin = trace[i].plugin
       /\ plugins[trace[i].plugin].tearDowns = 1

C17_Witness ==
  /\ lastOp.op = "setUp"
  /\ Kinds(trace, {"setUp"}) # {}
  /\ Kinds(trace, {"tearDown"}) = {}
  /\ \E id \in DOMAIN plugins : plugins[id].tearDowns = 1
  /\ NowRegistered # {}

IsPresentIn(regs, r, n) == r \in DOMAIN regs /\ n \in DOMAIN regs[r].items_

\* C18: a name that is not registered (removed or pruned by setUp) becomes
\* registered again only by an explicit add of that name; such an add
\* succeeds and registers a newly constructed instance, not one constructed
\* before, on which neither setUp nor tearDown has been called.
C18_OnlyAddReadmits ==
  [][\A r \in RegistryNames, n \in ItemNames :
       /\ (~IsPresentIn(registries_, r, n) /\ IsPresentIn(registries_', r, n))
          => (lastOp'.op = "add" /\ lastOp'.reg = r /\ lastOp'.item = n)
       /\ (lastOp'.op = "add" /\ lastOp'.reg = r /\ lastOp'.item = n
             /\ r \in DOMAIN registries_ /\ ~IsPresent(r, n))
          => LET id == registries_'[r].items_[n]
             IN /\ lastOp'.code = 0
                /\ id \notin DOMAIN plugins
                /\ plugins'[id] = [name_ |-> n, tearDowns |-> 0]
                /\ \A old \in DOMAIN plugins : plugins'[old] = plugins[old]
                /\ trace' = <<Event("new", r, n, id)>>]_vars

C18_Witness ==
  /\ lastOp.op = "add"
  /\ lastOp.code = 0
  /\ \E old \in DOMAIN plugins :
       /\ old < registries_[lastOp.reg].items_[lastOp.item]
       /\ plugins[old].name_ = lastOp.item
       /\ plugins[old].tearDowns = 1

\* C19: while several threads call plugins concurrently, no step changes
\* the registries, the item sets or the plugins (a lookup of an unknown
\* registry or item name inserts nothing), and every call that has returned
\* reached the item registered under its own registry and item name, or
\* failed without reaching any plugin when there is none.
C19_ConcurrentCallsReadOnly ==
  [][/\ registries_' = registries_
     /\ plugins' = plugins
     /\ \A t \in DOMAIN threads :
          threads'[t].pc = "done"
          => LET th == threads'[t]
             IN /\ th.fault = "none"
                /\ ~th.missing
                /\ ~th.stale
                /\ IF IsPresent(th.reg, th.item)
                   THEN th.ref = registries_[th.reg].items_[th.item]
                   ELSE th.ref = Null /\ th.code = 1]_vars

C19_Witness ==
  \E t \in DOMAIN threads : \E u \in DOMAIN threads :
    /\ t # u
    /\ threads[t].pc = "invoke"
    /\ threads[u].pc = "done"
    /\ threads[u].ref # Null
    /\ threads[u].ref # threads[t].ref
    /\ \E r \in RegistryNames : r \notin DOMAIN registries_

\* C20 as stated: when a call is interleaved with a remove of the same item,
\* the plugin's call is never invoked after its tearDown, the call never
\* looks up an entry that has been erased, and after the remove has
\* completed the item set does not contain the item name.
C20_CallRemoveInterleavingSafe ==
  /\ \A t \in DOMAIN threads :
       threads[t].op = "call" => ~threads[t].stale /\ ~threads[t].missing
  /\ \A t \in DOMAIN threads :
       (threads[t].op = "remove" /\ threads[t].pc = "done"
          /\ threads[t].fault = "none")
       => ~IsPresent(threads[t].reg, threads[t].item)

====
